---- MODULE Spec2Model ----
(***************************************************************************)
(* Model of ignition/service/resourcedriver.py: the execution monitoring   *)
(* service (monitor_execution, job_handler), the lifecycle messaging       *)
(* service (send_lifecycle_execution) and the job queue they run on.       *)
(*                                                                         *)
(* Python values are modelled as strings.  A dictionary key that is not    *)
(* present is ABSENT, a key (or argument) whose value is None is NULL.     *)
(***************************************************************************)
EXTENDS Naturals, Sequences, FiniteSets, TLC

VARIABLES job_queue, completion_topic, accepted, last,
          request_queue, minted, config,
          workspace, root_exists, pc,
          registered

\* the state of the resource driver service, of the driver files manager and
\* of the handler registry of the job queue
service_vars == <<request_queue, minted, config>>
file_vars == <<workspace, root_exists, pc>>
queue_vars == <<registered>>

vars == <<job_queue, completion_topic, accepted, last,
          request_queue, minted, config, workspace, root_exists, pc, registered>>

----------------------------------------------------------------------------
(* Bounds *)

NumRequests == 2

----------------------------------------------------------------------------
(* Values *)

ABSENT == "ABSENT"
NULL == "NULL"

LIFECYCLE_EXECUTION_MONITOR_JOB_TYPE == "LifecycleExecutionMonitoring"

STATUS_COMPLETE == "COMPLETE"
STATUS_FAILED == "FAILED"
STATUS_IN_PROGRESS == "IN_PROGRESS"
FAILURE_CODE_INTERNAL_ERROR == "INTERNAL_ERROR"

\* statuses a handler may report; PENDING stands for any other non-terminal value
Statuses == {STATUS_IN_PROGRESS, STATUS_COMPLETE, STATUS_FAILED, "PENDING"}

\* the exception classes of lines 30-52 that get_lifecycle_execution may raise,
\* and a plain Exception
Exceptions == {"RequestNotFoundError", "TemporaryResourceDriverError",
               "ResourceDriverError", "Exception"}

Messages == {"boom", "bang"}

RequestIds == {"r" \o ToString(i) : i \in 1..NumRequests}
DeploymentLocations == {"dl1"}
TenantIds == {"t1"}

lifecycle_execution_events_topic == "lifecycle_execution_events"

NoFailure == [failure_code |-> "none", description |-> "none"]

\* FailureDetails(failure_code, description)
FailureDetails(failure_code, description) ==
    [failure_code |-> failure_code, description |-> description]

\* LifecycleExecution(request_id, status, failure_details)
LifecycleExecution(request_id, status, failure_details) ==
    [request_id |-> request_id, status |-> status, failure_details |-> failure_details]

\* the failure details a handler attaches to an execution it reports as FAILED
HandlerFailure == FailureDetails("RESOURCE_NOT_FOUND", "handler failure")

----------------------------------------------------------------------------
(* The environment of one poll: what the handler plugin and the message    *)
(* bus do when job_handler calls them.                                     *)

GetOutcomes ==
    [kind : {"return"}, status : Statuses, exc : {"none"}, msg : {"none"}]
    \cup [kind : {"raise"}, status : {"none"}, exc : Exceptions, msg : Messages]

PostOutcomes == {"ok", "raise"}
HookOutcomes == {"absent", "returns", "raises"}

Envs == [get : GetOutcomes, post : PostOutcomes, hook : HookOutcomes]

\* the LifecycleExecution handler.get_lifecycle_execution returns
returned_execution(request_id, get) ==
    LifecycleExecution(request_id, get.status,
                       IF get.status = STATUS_FAILED THEN HandlerFailure ELSE NoFailure)

----------------------------------------------------------------------------
(* Lifecycle messaging *)

\* lifecycle_execution_dict: the JSON object of an execution; failureDetails
\* is emitted only when present
lifecycle_execution_dict(lifecycle_execution) ==
    [requestId |-> lifecycle_execution.request_id,
     status |-> lifecycle_execution.status,
     failureDetails |->
        IF lifecycle_execution.failure_details = NoFailure
        THEN [failureCode |-> ABSENT, description |-> ABSENT]
        ELSE [failureCode |-> lifecycle_execution.failure_details.failure_code,
              description |-> lifecycle_execution.failure_details.description]]

Envelope(address, message, tenant_id) ==
    [address |-> address, message |-> message, tenant_id |-> tenant_id]

\* send_lifecycle_execution(lifecycle_execution, tenant_id=tenant_id): builds
\* the envelope and hands it to postal_service.post, whose failure propagates
send_lifecycle_execution(lifecycle_execution, tenant_id, post) ==
    [envelope |-> Envelope(lifecycle_execution_events_topic,
                           lifecycle_execution_dict(lifecycle_execution),
                           tenant_id),
     raised |-> IF post = "raise" THEN "PostError" ELSE "none"]

----------------------------------------------------------------------------
(* Job definitions *)

\* faulty variant: the job definition does not carry the tenant
create_job_definition_without_tenant(request_id, deployment_location, tenant_id) ==
    [job_type |-> LIFECYCLE_EXECUTION_MONITOR_JOB_TYPE,
     request_id |-> request_id,
     deployment_location |-> deployment_location,
     tenant_id |-> NULL]

\* __create_job_definition(request_id, deployment_location, tenant_id)
create_job_definition(request_id, deployment_location, tenant_id) ==
    [job_type |-> LIFECYCLE_EXECUTION_MONITOR_JOB_TYPE,
     request_id |-> request_id,
     deployment_location |-> deployment_location,
     tenant_id |-> tenant_id]

\* every dictionary the job queue can hand to job_handler: each key of the
\* monitor job present with a value, present with None, or not present
JobDefinitions ==
    [job_type : {LIFECYCLE_EXECUTION_MONITOR_JOB_TYPE},
     request_id : RequestIds \cup {NULL, ABSENT},
     deployment_location : DeploymentLocations \cup {NULL, ABSENT},
     tenant_id : TenantIds \cup {NULL, ABSENT}]

\* faulty variant: only the presence of the key is checked, not its value
missing_key_only(job_definition, key) ==
    job_definition[key] = ABSENT

\* 'key' not in job_definition or job_definition['key'] is None
missing(job_definition, key) ==
    job_definition[key] = ABSENT \/ job_definition[key] = NULL

----------------------------------------------------------------------------
(* job_handler: one poll.  Its result records how the call ended           *)
(* (result "True" / "False", or "Raised" with the exception in exc), the   *)
(* collaborator calls it made in order (calls), the envelopes it handed to *)
(* postal_service.post (posts) and those the bus accepted (posted).        *)

Outcome(result, exc, calls, posts, posted) ==
    [result |-> result, exc |-> exc, calls |-> calls, posts |-> posts, posted |-> posted]

\* faulty variant: an exception of the send is swallowed
after_send_unchecked(sent, calls, then) == then

\* a send made after the calls in 'calls'; 'then' is the outcome when post returns
after_send(sent, calls, then) ==
    IF sent.raised # "none"
    THEN Outcome("Raised", sent.raised, Append(calls, "post"), <<sent.envelope>>, <<>>)
    ELSE then

\* faulty variant: an exception of the hook leaves job_handler
hook_exception_propagates(then, hook) ==
    IF hook = "absent"
    THEN then
    ELSE IF hook = "raises"
    THEN [then EXCEPT !.calls = Append(@, "post_lifecycle_response"),
                      !.result = "Raised", !.exc = "HookError"]
    ELSE [then EXCEPT !.calls = Append(@, "post_lifecycle_response")]

\* lines 346-351: the optional hook is called when the handler has it, and an
\* exception it raises is logged and swallowed; 'then' is the outcome so far
call_post_lifecycle_response(then, hook) ==
    IF hook = "absent"
    THEN then
    ELSE [then EXCEPT !.calls = Append(@, "post_lifecycle_response")]

\* faulty variant: FAILED is not taken as terminal
is_terminal_complete_only(status) == status = STATUS_COMPLETE

\* line 344: status in [STATUS_COMPLETE, STATUS_FAILED]
is_terminal(status) == status \in {STATUS_COMPLETE, STATUS_FAILED}

\* faulty variant: a status that is not terminal ends the monitoring too
on_execution_always_finished(lifecycle_execution_task, tenant_id, env) ==
    LET calls == <<"get_lifecycle_execution">>
        sent == send_lifecycle_execution(lifecycle_execution_task, tenant_id, env.post)
    IN  IF lifecycle_execution_task.status \in {STATUS_COMPLETE, STATUS_FAILED}
        THEN IF sent.raised # "none"
             THEN Outcome("Raised", sent.raised, Append(calls, "post"),
                          <<sent.envelope>>, <<>>)
             ELSE Outcome("True", "none",
                          IF env.hook = "absent"
                          THEN Append(calls, "post")
                          ELSE calls \o <<"post", "post_lifecycle_response">>,
                          <<sent.envelope>>, <<sent.envelope>>)
        ELSE Outcome("True", "none", calls, <<>>, <<>>)

\* faulty variant: the monitoring goes on after a terminal status was sent
on_execution_never_finished(lifecycle_execution_task, tenant_id, env) ==
    LET calls == <<"get_lifecycle_execution">>
        sent == send_lifecycle_execution(lifecycle_execution_task, tenant_id, env.post)
    IN  IF is_terminal(lifecycle_execution_task.status)
        THEN after_send(sent, calls,
                 call_post_lifecycle_response(
                     Outcome("False", "none", Append(calls, "post"),
                             <<sent.envelope>>, <<sent.envelope>>),
                     env.hook))
        ELSE Outcome("False", "none", calls, <<>>, <<>>)

\* lines 343-353: get_lifecycle_execution returned lifecycle_execution_task
on_execution(lifecycle_execution_task, tenant_id, env) ==
    LET calls == <<"get_lifecycle_execution">>
        sent == send_lifecycle_execution(lifecycle_execution_task, tenant_id, env.post)
    IN  IF is_terminal(lifecycle_execution_task.status)
        THEN after_send(sent, calls,
                 call_post_lifecycle_response(
                     Outcome("True", "none", Append(calls, "post"),
                             <<sent.envelope>>, <<sent.envelope>>),
                     env.hook))
        ELSE Outcome("False", "none", calls, <<>>, <<>>)

\* faulty variant: the failure details do not carry the exception's message
on_unexpected_error_without_message(request_id, tenant_id, msg, env) ==
    LET calls == <<"get_lifecycle_execution">>
        lifecycle_execution_task ==
            LifecycleExecution(request_id, STATUS_FAILED,
                               FailureDetails(FAILURE_CODE_INTERNAL_ERROR, "Unexpected error"))
        sent == send_lifecycle_execution(lifecycle_execution_task, tenant_id, env.post)
    IN  IF sent.raised # "none"
        THEN Outcome("Raised", sent.raised, Append(calls, "post"), <<sent.envelope>>, <<>>)
        ELSE Outcome("True", "none", Append(calls, "post"),
                     <<sent.envelope>>, <<sent.envelope>>)

\* lines 338-342: get_lifecycle_execution raised something unexpected
on_unexpected_error(request_id, tenant_id, msg, env) ==
    LET calls == <<"get_lifecycle_execution">>
        lifecycle_execution_task ==
            LifecycleExecution(request_id, STATUS_FAILED,
                               FailureDetails(FAILURE_CODE_INTERNAL_ERROR, msg))
        sent == send_lifecycle_execution(lifecycle_execution_task, tenant_id, env.post)
    IN  after_send(sent, calls,
            Outcome("True", "none", Append(calls, "post"),
                    <<sent.envelope>>, <<sent.envelope>>))

\* faulty variant: TemporaryResourceDriverError falls through to the
\* clause for unexpected exceptions
on_exception_temporary_unexpected(request_id, tenant_id, get, env) ==
    IF get.exc = "RequestNotFoundError"
    THEN Outcome("True", "none", <<"get_lifecycle_execution">>, <<>>, <<>>)
    ELSE on_unexpected_error(request_id, tenant_id, get.msg, env)

\* faulty variant: RequestNotFoundError falls through to the clause for
\* unexpected exceptions
on_exception_not_found_unexpected(request_id, tenant_id, get, env) ==
    IF get.exc = "TemporaryResourceDriverError"
    THEN Outcome("False", "none", <<"get_lifecycle_execution">>, <<>>, <<>>)
    ELSE on_unexpected_error(request_id, tenant_id, get.msg, env)

\* lines 330-342: the except clauses, in order
on_exception(request_id, tenant_id, get, env) ==
    IF get.exc = "RequestNotFoundError"
    THEN Outcome("True", "none", <<"get_lifecycle_execution">>, <<>>, <<>>)
    ELSE IF get.exc = "TemporaryResourceDriverError"
    THEN Outcome("False", "none", <<"get_lifecycle_execution">>, <<>>, <<>>)
    ELSE on_unexpected_error(request_id, tenant_id, get.msg, env)

\* lines 320-353
job_handler(job_definition, env) ==
    IF missing(job_definition, "request_id")
    THEN Outcome("True", "none", <<>>, <<>>, <<>>)
    ELSE IF missing(job_definition, "deployment_location")
    THEN Outcome("True", "none", <<>>, <<>>, <<>>)
    ELSE IF job_definition.tenant_id = ABSENT
    THEN Outcome("Raised", "KeyError", <<>>, <<>>, <<>>)
    ELSE IF env.get.kind = "raise"
    THEN on_exception(job_definition.request_id, job_definition.tenant_id, env.get, env)
    ELSE on_execution(returned_execution(job_definition.request_id, env.get),
                      job_definition.tenant_id, env)

----------------------------------------------------------------------------
(* monitor_execution and the job queue service                             *)

\* faulty variant: a job_type of None is accepted
queue_job_accepts_null(queue, job_definition) ==
    IF job_definition.job_type = ABSENT
    THEN [raised |-> "ValueError", queue |-> queue]
    ELSE [raised |-> "none", queue |-> Append(queue, job_definition)]

\* MessagingJobQueueService.queue_job: refuses a job definition without a
\* job_type, otherwise posts it to the job_queue topic
queue_job(queue, job_definition) ==
    IF job_definition.job_type = ABSENT \/ job_definition.job_type = NULL
    THEN [raised |-> "ValueError", queue |-> queue]
    ELSE [raised |-> "none", queue |-> Append(queue, job_definition)]

\* faulty variant: deployment_location is not checked
monitor_execution_unchecked_location(queue, request_id, deployment_location, tenant_id) ==
    IF request_id = NULL
    THEN [raised |-> "ValueError", queue |-> queue]
    ELSE queue_job(queue, create_job_definition(request_id, deployment_location, tenant_id))

\* lines 363-368
monitor_execution(queue, request_id, deployment_location, tenant_id) ==
    IF request_id = NULL
    THEN [raised |-> "ValueError", queue |-> queue]
    ELSE IF deployment_location = NULL
    THEN [raised |-> "ValueError", queue |-> queue]
    ELSE queue_job(queue, create_job_definition(request_id, deployment_location, tenant_id))

\* the handler registry after LifecycleExecutionMonitoringService.__init__ (line 318)
job_handlers == {LIFECYCLE_EXECUTION_MONITOR_JOB_TYPE}

\* MessagingJobQueueService.__received_next_job_handler: a message without
\* job_type is discarded, a job without a registered handler goes back to the
\* queue, otherwise the handler runs and the job goes back when it returns
\* not finished; an exception of the handler leaves through this function
received_next_job_handler(queue, job_definition, env) ==
    IF job_definition.job_type = ABSENT
    THEN [res |-> Outcome("none", "none", <<>>, <<>>, <<>>), queue |-> queue]
    ELSE IF job_definition.job_type \notin job_handlers
    THEN [res |-> Outcome("none", "none", <<>>, <<>>, <<>>),
          queue |-> queue_job(queue, job_definition).queue]
    ELSE LET res == job_handler(job_definition, env)
         IN  [res |-> res,
              queue |-> IF res.result = "False"
                        THEN queue_job(queue, job_definition).queue
                        ELSE queue]

----------------------------------------------------------------------------
(* State                                                                   *)
(*   job_queue         the messages on the job_queue topic, oldest first   *)
(*   completion_topic  the envelopes the bus accepted on the lifecycle     *)
(*                     execution events topic, oldest first                *)
(*   accepted          history: for each request id, where its monitoring  *)
(*                     stands (the state machine of the specification)     *)
(*   last              history: the last operation, its input and outcome  *)
(*   request_queue     the messages on the lifecycle request topic         *)
(*   minted            how many uuid4 values have been drawn               *)
(*   config            async_messaging_enabled, lifecycle_request_queue    *)
(*                     .enabled as read by ResourceDriverService.__init__  *)
(*   workspace         for each tree name, the package file and the        *)
(*                     extraction directory under scripts_workspace        *)
(*   root_exists       whether the scripts_workspace directory exists      *)
(*   pc                where each DriverFilesManagerService under          *)
(*                     construction stands                                 *)
(*   registered        job_handlers of the job queue: job type -> handler  *)

NoJob == [job_type |-> ABSENT, request_id |-> ABSENT,
          deployment_location |-> ABSENT, tenant_id |-> ABSENT]
NoEnv == [get |-> [kind |-> "none", status |-> "none", exc |-> "none", msg |-> "none"],
          post |-> "none", hook |-> "none"]
NoOutcome == Outcome("none", "none", <<>>, <<>>, <<>>)

Last(op, job, env, res, raised) ==
    [op |-> op, job |-> job, env |-> env, res |-> res, raised |-> raised]

\* where the monitoring of a request stands after a poll that ended with res
state_after(env, res) ==
    IF res.result = "Raised" THEN "RAISED"
    ELSE IF res.result = "False" THEN "POLLING"
    ELSE IF env.get.kind = "raise" /\ env.get.exc = "RequestNotFoundError" THEN "DROPPED"
    ELSE IF env.get.kind = "raise" THEN "PUBLISHED_AS_FAILED"
    ELSE "PUBLISHED"

\* the defaults of ResourceDriverProperties and LifecycleRequestQueueProperties
DefaultConfig == [async_enabled |-> TRUE, async_requests_enabled |-> FALSE]

\* no request admitted, no uuid drawn
ServiceIdle ==
    /\ request_queue = <<>>
    /\ minted = 0
    /\ config = DefaultConfig

\* no driver files manager constructed, nothing on disk
FilesIdle ==
    /\ workspace = <<>>
    /\ root_exists = FALSE
    /\ pc = <<>>

\* the registry once the monitoring service has registered job_handler
MonitorRegistered ==
    registered = [job_type \in job_handlers |-> "job_handler"]

Init ==
    /\ job_queue = <<>>
    /\ completion_topic = <<>>
    /\ accepted = [r \in RequestIds |-> "NONE"]
    /\ last = Last("init", NoJob, NoEnv, NoOutcome, "none")
    /\ ServiceIdle
    /\ FilesIdle
    /\ MonitorRegistered

\* a caller (ResourceDriverService, line 300) schedules the monitoring of a
\* request; request ids are unique, so a request is scheduled once
MonitorExecution(request_id, deployment_location, tenant_id) ==
    /\ request_id \in RequestIds => accepted[request_id] = "NONE"
    /\ LET r == monitor_execution(job_queue, request_id, deployment_location, tenant_id)
       IN  /\ job_queue' = r.queue
           /\ accepted' = IF r.raised = "none"
                          THEN [accepted EXCEPT ![request_id] = "SCHEDULED"]
                          ELSE accepted
           /\ last' = Last("monitor_execution",
                           [job_type |-> ABSENT, request_id |-> request_id,
                            deployment_location |-> deployment_location,
                            tenant_id |-> tenant_id],
                           NoEnv, NoOutcome, r.raised)
    /\ UNCHANGED <<completion_topic, service_vars, file_vars, queue_vars>>

\* the inbox delivers the oldest message of the job_queue topic
ReceivedNextJob(env) ==
    /\ job_queue # <<>>
    /\ LET job_definition == Head(job_queue)
           r == received_next_job_handler(Tail(job_queue), job_definition, env)
       IN  /\ job_queue' = r.queue
           /\ completion_topic' = completion_topic \o r.res.posted
           /\ accepted' = [accepted EXCEPT ![job_definition.request_id] =
                                               state_after(env, r.res)]
           /\ last' = Last("received_next_job", job_definition, NoEnv, r.res,
                           IF r.res.result = "Raised" THEN r.res.exc ELSE "none")
    /\ UNCHANGED <<service_vars, file_vars, queue_vars>>

\* the polls of the queue draw one exception message: the state of the queue
\* and of the topics does not depend on its text, only the envelope does
QueueEnvs == {env \in Envs : env.get.msg \in {"none", "boom"}}

Next ==
    \/ \E request_id \in RequestIds \cup {NULL},
          deployment_location \in DeploymentLocations \cup {NULL},
          tenant_id \in TenantIds \cup {NULL} :
            MonitorExecution(request_id, deployment_location, tenant_id)
    \/ \E env \in QueueEnvs : env.post = "ok" /\ ReceivedNextJob(env)
    \/ \E env \in QueueEnvs : env.post = "raise" /\ ReceivedNextJob(env)

Spec == Init /\ [][Next]_vars

----------------------------------------------------------------------------
(* job_handler on its own: any job definition, any behaviour of the        *)
(* handler plugin and of the bus                                           *)

PollInit ==
    /\ job_queue = <<>>
    /\ completion_topic = <<>>
    /\ accepted = [r \in RequestIds |-> "NONE"]
    /\ \E job_definition \in JobDefinitions, env \in Envs :
          last = Last("input", job_definition, env, NoOutcome, "none")
    /\ ServiceIdle
    /\ FilesIdle
    /\ MonitorRegistered

PollJob ==
    /\ last.op = "input"
    /\ LET res == job_handler(last.job, last.env)
       IN  /\ last' = Last("job_handler", last.job, last.env, res,
                           IF res.result = "Raised" THEN res.exc ELSE "none")
           /\ completion_topic' = completion_topic \o res.posted
    /\ UNCHANGED <<job_queue, accepted, service_vars, file_vars, queue_vars>>

PollNext == PollJob

PollSpec == PollInit /\ [][PollNext]_vars

----------------------------------------------------------------------------
(* DriverFilesManagerService: the workspace root and the trees under it    *)

NumInstances == 2

Instances == 1..NumInstances
TreeNames == {"tree1", "tree2"}
FileNames == {"install.sh", "start.sh"}

\* lifecycle_scripts: base64 of a zip archive with the given entries, base64
\* of bytes that are no zip archive, or text that base64 cannot decode
Payloads ==
    [kind : {"zip"}, entries : SUBSET FileNames]
    \cup {[kind |-> "not_zip", entries |-> {}], [kind |-> "bad_base64", entries |-> {}]}

\* what is on disk for one tree name: the package file <root>/<name>.zip and
\* the extraction directory <root>/<name>
NoPackage == [kind |-> "absent", entries |-> {}]
NoTree == [package |-> NoPackage, dir |-> FALSE, files |-> {}]

\* faulty variant: the extraction directory of an earlier build is kept
clear_existing_files_keeps_directory(tree) ==
    [tree EXCEPT !.package = NoPackage]

\* lines 417-423: __clear_existing_files
clear_existing_files(tree) ==
    [tree EXCEPT !.package = NoPackage, !.dir = FALSE, !.files = {}]

\* lines 433-437: __write_scripts_to_disk; open(..., 'wb') creates the package
\* file before b64decode runs
write_scripts_to_disk(tree, lifecycle_scripts) ==
    IF lifecycle_scripts.kind = "bad_base64"
    THEN [tree |-> [tree EXCEPT !.package = [kind |-> "empty", entries |-> {}]],
          raised |-> "binascii.Error"]
    ELSE [tree |-> [tree EXCEPT !.package = lifecycle_scripts], raised |-> "none"]

\* lines 439-446: __extract_scripts
extract_scripts(tree) ==
    IF tree.package.kind # "zip"
    THEN [tree |-> tree, raised |-> "ValueError"]
    ELSE [tree |-> [tree EXCEPT !.dir = TRUE,
                                !.files = tree.files \cup tree.package.entries,
                                !.package = NoPackage],
          raised |-> "none"]

\* lines 411-415: build_tree, on what is on disk for tree_name
build_tree(tree, lifecycle_scripts) ==
    LET written == write_scripts_to_disk(clear_existing_files(tree), lifecycle_scripts)
    IN  IF written.raised # "none" THEN written ELSE extract_scripts(written.tree)

\* history of the last build_tree: its arguments, what was on disk for the
\* tree before it (prior), whether it repeats the call before it and, if so,
\* what was on disk before the first of the two (before)
LastBuild(op, tree_name, lifecycle_scripts, prior, raised, repeated, before) ==
    [op |-> op, tree_name |-> tree_name, lifecycle_scripts |-> lifecycle_scripts,
     prior |-> prior, raised |-> raised, repeated |-> repeated, before |-> before]

\* what an earlier run of the driver can have left on disk for a tree name:
\* any package file (a kill between lines 444 and 445 leaves it next to the
\* extracted files) and any extraction directory
Packages ==
    Payloads \cup {NoPackage, [kind |-> "empty", entries |-> {}]}
TreeStates ==
    {tree \in [package : Packages, dir : BOOLEAN, files : SUBSET FileNames] :
        tree.package.kind # "bad_base64" /\ (~tree.dir => tree.files = {})}

FilesInit ==
    /\ workspace \in [TreeNames -> TreeStates]
    /\ root_exists = FALSE
    /\ pc = [i \in Instances |-> "new"]
    /\ last = LastBuild("init", "none", [kind |-> "none", entries |-> {}], NoTree,
                        "none", FALSE, NoTree)
    /\ job_queue = <<>>
    /\ completion_topic = <<>>
    /\ accepted = [r \in RequestIds |-> "NONE"]
    /\ ServiceIdle
    /\ MonitorRegistered

\* line 408: os.path.exists(self.scripts_workspace)
CheckWorkspace(i) ==
    /\ pc[i] = "new"
    /\ pc' = [pc EXCEPT ![i] = IF root_exists THEN "ready" ELSE "create"]
    /\ UNCHANGED <<workspace, root_exists, last, job_queue, completion_topic,
                   accepted, service_vars, queue_vars>>

\* line 409: os.makedirs(self.scripts_workspace) raises FileExistsError when the
\* directory is there
CreateWorkspace(i) ==
    /\ pc[i] = "create"
    /\ pc' = [pc EXCEPT ![i] = IF root_exists THEN "failed" ELSE "ready"]
    /\ root_exists' = TRUE
    /\ UNCHANGED <<workspace, last, job_queue, completion_topic,
                   accepted, service_vars, queue_vars>>

\* a constructed manager builds a tree.  build_tree neither reads nor writes
\* what the constructions read and write, so the two commute: the builds are
\* explored once every construction has ended
BuildTree(i, tree_name, lifecycle_scripts) ==
    /\ pc[i] = "ready"
    /\ \A j \in Instances : pc[j] \in {"ready", "failed"}
    /\ LET r == build_tree(workspace[tree_name], lifecycle_scripts)
           repeated == /\ last.op = "build_tree"
                       /\ last.tree_name = tree_name
                       /\ last.lifecycle_scripts = lifecycle_scripts
                       /\ ~last.repeated
       IN  /\ workspace' = [workspace EXCEPT ![tree_name] = r.tree]
           /\ last' = LastBuild("build_tree", tree_name, lifecycle_scripts,
                                workspace[tree_name], r.raised, repeated,
                                IF repeated THEN last.prior ELSE workspace[tree_name])
    /\ UNCHANGED <<root_exists, pc, job_queue, completion_topic,
                   accepted, service_vars, queue_vars>>

FilesNext ==
    \/ \E i \in Instances : CheckWorkspace(i)
    \/ \E i \in Instances : CreateWorkspace(i)
    \/ \E i \in Instances, tree_name \in TreeNames, lifecycle_scripts \in Payloads :
          BuildTree(i, tree_name, lifecycle_scripts)

FilesSpec == FilesInit /\ [][FilesNext]_vars

----------------------------------------------------------------------------
(* ResourceDriverService: execute_lifecycle and find_reference             *)

MaxCalls == 2

\* str(uuid.uuid4()): the i-th value drawn
Uuid(i) == "u" \o ToString(i)
Uuids == {Uuid(i) : i \in 1..MaxCalls}

\* faulty variant: the same value is drawn every time
stale_uuid(n) == Uuid(1)

\* lines 270, 285, 294: a value never drawn before
fresh_uuid(n) == Uuid(n + 1)

Configs == [async_enabled : BOOLEAN, async_requests_enabled : BOOLEAN]

\* the arguments of a call, with the logging context at the time of the call
ServiceArgs ==
    [lifecycle_name : {"Install"},
     driver_files : {[kind |-> "zip", entries |-> {"install.sh"}],
                     [kind |-> "not_zip", entries |-> {}]},
     deployment_location : DeploymentLocations \cup {NULL},
     tenant_id : TenantIds \cup {NULL},
     logging_context : {"ctx1", "ctx2"}]

\* what the handler plugin does with a call: it returns a response with a
\* request id of its own or with none, or it raises, and it calls remove_all
\* on the tree or does not
HandlerOutcomes ==
    [kind : {"return"}, request_id : {"r1", NULL}, exc : {"none"},
     releases : BOOLEAN]
    \cup [kind : {"raise"}, request_id : {"none"},
          exc : {"InvalidRequestError", "TemporaryResourceDriverError"},
          releases : BOOLEAN]

\* how a call of the service ended: the state it leaves, the response it
\* returned or the exception it raised, the collaborator calls it made in
\* order and the tree it built
ServiceResult(svc, response, raised, calls, tree_name) ==
    [svc |-> svc, response |-> response, raised |-> raised, calls |-> calls,
     tree_name |-> tree_name]

\* lines 271-282: the message put on the request queue
lifecycle_request(request_id, args) ==
    [request_id |-> request_id,
     lifecycle_name |-> args.lifecycle_name,
     driver_files |-> args.driver_files,
     deployment_location |-> args.deployment_location,
     tenant_id |-> args.tenant_id,
     logging_context |-> args.logging_context]

\* lifecycle_request_queue.queue_lifecycle_request: posts the request to the
\* request topic
queue_lifecycle_request(queue, request) == Append(queue, request)

\* DirectoryTree.remove_all, when the handler calls it
handler_uses(tree, outcome) ==
    IF outcome.releases THEN [tree EXCEPT !.dir = FALSE, !.files = {}] ELSE tree

\* lines 269-283: the request queue is enabled
execute_lifecycle_queued(svc, args) ==
    LET request_id == fresh_uuid(svc.minted)
    IN  ServiceResult(
            [svc EXCEPT !.minted = @ + 1,
                        !.request_queue =
                            queue_lifecycle_request(@, lifecycle_request(request_id, args))],
            request_id, "none", <<"queue_lifecycle_request">>, "none")

\* lines 299-300 and the return of line 291
async_lifecycle_execution_completion(svc, request_id, args, calls, tree_name) ==
    LET r == monitor_execution(svc.job_queue, request_id,
                               args.deployment_location, args.tenant_id)
    IN  ServiceResult([svc EXCEPT !.job_queue = r.queue],
                      IF r.raised = "none" THEN request_id ELSE "none",
                      r.raised, Append(calls, "monitor_execution"), tree_name)

\* faulty variant: the monitoring is scheduled whatever async_enabled is
handle_lifecycle_always_monitored(svc, args, outcome, tree_name) ==
    LET calls == <<"build_tree", "handler.execute_lifecycle">>
        used == [svc EXCEPT !.workspace[tree_name] = handler_uses(@, outcome)]
    IN  IF outcome.kind = "raise"
        THEN ServiceResult(used, "none", outcome.exc, calls, tree_name)
        ELSE async_lifecycle_execution_completion(used, outcome.request_id, args,
                                                  calls, tree_name)

\* faulty variant: an exception of the handler is wrapped
handle_lifecycle_wraps_exception(svc, args, outcome, tree_name) ==
    LET calls == <<"build_tree", "handler.execute_lifecycle">>
        used == [svc EXCEPT !.workspace[tree_name] = handler_uses(@, outcome)]
    IN  IF outcome.kind = "raise"
        THEN ServiceResult(used, "none", "ResourceDriverError", calls, tree_name)
        ELSE IF svc.config.async_enabled
        THEN async_lifecycle_execution_completion(used, outcome.request_id, args,
                                                  calls, tree_name)
        ELSE ServiceResult(used, outcome.request_id, "none", calls, tree_name)

\* lines 288-291: the handler is called with the tree
handle_lifecycle(svc, args, outcome, tree_name) ==
    LET calls == <<"build_tree", "handler.execute_lifecycle">>
        used == [svc EXCEPT !.workspace[tree_name] = handler_uses(@, outcome)]
    IN  IF outcome.kind = "raise"
        THEN ServiceResult(used, "none", outcome.exc, calls, tree_name)
        ELSE IF svc.config.async_enabled
        THEN async_lifecycle_execution_completion(used, outcome.request_id, args,
                                                  calls, tree_name)
        ELSE ServiceResult(used, outcome.request_id, "none", calls, tree_name)

\* lines 284-291: the request queue is not enabled
execute_lifecycle_direct(svc, args, outcome) ==
    LET file_name == fresh_uuid(svc.minted)
        built == build_tree(svc.workspace[file_name], args.driver_files)
        svc1 == [svc EXCEPT !.minted = @ + 1, !.workspace[file_name] = built.tree]
    IN  IF built.raised # "none"
        THEN ServiceResult(svc1, "none", built.raised, <<"build_tree">>, file_name)
        ELSE handle_lifecycle(svc1, args, outcome, file_name)

\* lines 268-291
execute_lifecycle(svc, args, outcome) ==
    IF svc.config.async_requests_enabled
    THEN execute_lifecycle_queued(svc, args)
    ELSE execute_lifecycle_direct(svc, args, outcome)

\* lines 293-297
find_reference(svc, args, outcome) ==
    LET file_name == fresh_uuid(svc.minted)
        built == build_tree(svc.workspace[file_name], args.driver_files)
        svc1 == [svc EXCEPT !.minted = @ + 1, !.workspace[file_name] = built.tree]
        calls == <<"build_tree", "handler.find_reference">>
        used == [svc1 EXCEPT !.workspace[file_name] = handler_uses(@, outcome)]
    IN  IF built.raised # "none"
        THEN ServiceResult(svc1, "none", built.raised, <<"build_tree">>, file_name)
        ELSE IF outcome.kind = "raise"
        THEN ServiceResult(used, "none", outcome.exc, calls, file_name)
        ELSE ServiceResult(used, outcome.request_id, "none", calls, file_name)

\* the state the service works on
Service ==
    [config |-> config, minted |-> minted, request_queue |-> request_queue,
     job_queue |-> job_queue, workspace |-> workspace]

\* history of the last call of the service
LastCall(op, args, outcome, r) ==
    [op |-> op, args |-> args, outcome |-> outcome, response |-> r.response,
     raised |-> r.raised, calls |-> r.calls, tree_name |-> r.tree_name]

NoArgs ==
    [lifecycle_name |-> "none", driver_files |-> [kind |-> "none", entries |-> {}],
     deployment_location |-> "none", tenant_id |-> "none", logging_context |-> "none"]
NoHandlerOutcome ==
    [kind |-> "none", request_id |-> "none", exc |-> "none", releases |-> FALSE]

ServiceInit ==
    /\ config \in Configs
    /\ minted = 0
    /\ request_queue = <<>>
    /\ job_queue = <<>>
    /\ workspace = [tree_name \in Uuids |-> NoTree]
    /\ root_exists = TRUE
    /\ pc = <<>>
    /\ completion_topic = <<>>
    /\ accepted = [r \in RequestIds |-> "NONE"]
    /\ last = [op |-> "init", args |-> NoArgs, outcome |-> NoHandlerOutcome,
               response |-> "none", raised |-> "none", calls |-> <<>>,
               tree_name |-> "none"]
    /\ MonitorRegistered

\* the state after a call that ended with r
Served(op, args, outcome, r) ==
    /\ minted' = r.svc.minted
    /\ request_queue' = r.svc.request_queue
    /\ job_queue' = r.svc.job_queue
    /\ workspace' = r.svc.workspace
    /\ last' = LastCall(op, args, outcome, r)
    /\ UNCHANGED <<config, completion_topic, accepted, root_exists, pc, queue_vars>>

\* ResourceDriverApiService.execute_lifecycle (line 217) calls the service
ExecuteLifecycle(args, outcome) ==
    /\ minted < MaxCalls
    /\ Served("execute_lifecycle", args, outcome, execute_lifecycle(Service, args, outcome))

\* ResourceDriverApiService.find_reference (line 235) calls the service
FindReference(args, outcome) ==
    /\ minted < MaxCalls
    /\ Served("find_reference", args, outcome, find_reference(Service, args, outcome))

ServiceNext ==
    \/ \E args \in ServiceArgs, outcome \in HandlerOutcomes :
          ExecuteLifecycle(args, outcome)
    \/ \E args \in ServiceArgs, outcome \in HandlerOutcomes :
          FindReference(args, outcome)

ServiceSpec == ServiceInit /\ [][ServiceNext]_vars

----------------------------------------------------------------------------
(* MessagingJobQueueService with any job types and handlers                *)

MaxQueue == 2

JobTypes == {"test_job", "other_job"}
HandlerFuncs == {"handler_func", "other_handler_func"}
NotCallable == "not a func"

\* the job definitions callers queue and the messages other producers post
\* on the job_queue topic
QueuedJobs == [job_type : JobTypes \cup {ABSENT, NULL}, payload : {"a", "b"}]
TopicMessages == [job_type : JobTypes \cup {ABSENT}, payload : {"a", "b"}]

\* the registry of handlers: job type -> handler function
NoHandlers == [job_type \in {} |-> "none"]

\* faulty variant: a second handler replaces the first
register_job_handler_overwrites(handlers, job_type, handler_func) ==
    IF handler_func \notin HandlerFuncs
    THEN [raised |-> "ValueError", handlers |-> handlers]
    ELSE [raised |-> "none",
          handlers |-> [t \in DOMAIN handlers \cup {job_type} |->
                           IF t = job_type THEN handler_func ELSE handlers[t]]]

\* register_job_handler: refuses a handler that is not callable and a job
\* type that has a handler already
register_job_handler(handlers, job_type, handler_func) ==
    IF handler_func \notin HandlerFuncs
    THEN [raised |-> "ValueError", handlers |-> handlers]
    ELSE IF job_type \in DOMAIN handlers
    THEN [raised |-> "ValueError", handlers |-> handlers]
    ELSE [raised |-> "none",
          handlers |-> [t \in DOMAIN handlers \cup {job_type} |->
                           IF t = job_type THEN handler_func ELSE handlers[t]]]

\* how a delivery ended: the handler calls made, the messages posted to the
\* job_queue topic and the queue after them
Delivery(calls, posts, queue) == [calls |-> calls, posts |-> posts, queue |-> queue]

\* faulty variant: a job whose handler is not finished is not posted again
next_job_handler_drops_unfinished(queue, handlers, job_definition, finished) ==
    IF job_definition.job_type = ABSENT
    THEN Delivery(<<>>, <<>>, queue)
    ELSE IF job_definition.job_type \notin DOMAIN handlers
    THEN Delivery(<<>>, <<job_definition>>, queue_job(queue, job_definition).queue)
    ELSE Delivery(<<[handler_func |-> handlers[job_definition.job_type],
                     job_definition |-> job_definition]>>, <<>>, queue)

\* faulty variant: a job without a registered handler is dropped
next_job_handler_drops_unhandled(queue, handlers, job_definition, finished) ==
    IF job_definition.job_type = ABSENT
    THEN Delivery(<<>>, <<>>, queue)
    ELSE IF job_definition.job_type \notin DOMAIN handlers
    THEN Delivery(<<>>, <<>>, queue)
    ELSE LET calls == <<[handler_func |-> handlers[job_definition.job_type],
                         job_definition |-> job_definition]>>
         IN  IF finished
             THEN Delivery(calls, <<>>, queue)
             ELSE Delivery(calls, <<job_definition>>,
                           queue_job(queue, job_definition).queue)

\* faulty variant: a message without job_type is posted again
next_job_handler_requeues_untyped(queue, handlers, job_definition, finished) ==
    IF job_definition.job_type \notin DOMAIN handlers
    THEN Delivery(<<>>, <<job_definition>>, Append(queue, job_definition))
    ELSE LET calls == <<[handler_func |-> handlers[job_definition.job_type],
                         job_definition |-> job_definition]>>
         IN  IF finished
             THEN Delivery(calls, <<>>, queue)
             ELSE Delivery(calls, <<job_definition>>,
                           queue_job(queue, job_definition).queue)

\* __received_next_job_handler: a message without job_type is discarded, a
\* job without a registered handler is posted again, otherwise the handler is
\* called with the job definition and the job is posted again when the
\* handler returns not finished
next_job_handler(queue, handlers, job_definition, finished) ==
    IF job_definition.job_type = ABSENT
    THEN Delivery(<<>>, <<>>, queue)
    ELSE IF job_definition.job_type \notin DOMAIN handlers
    THEN Delivery(<<>>, <<job_definition>>, queue_job(queue, job_definition).queue)
    ELSE LET calls == <<[handler_func |-> handlers[job_definition.job_type],
                         job_definition |-> job_definition]>>
         IN  IF finished
             THEN Delivery(calls, <<>>, queue)
             ELSE Delivery(calls, <<job_definition>>,
                           queue_job(queue, job_definition).queue)

\* history of the last operation of the job queue service
LastQueue(op, job, handler_func, finished, raised, calls, posts) ==
    [op |-> op, job |-> job, handler_func |-> handler_func, finished |-> finished,
     raised |-> raised, calls |-> calls, posts |-> posts]

NoQueuedJob == [job_type |-> "none", payload |-> "none"]

QueueInit ==
    /\ registered = NoHandlers
    /\ job_queue = <<>>
    /\ last = LastQueue("init", NoQueuedJob, "none", FALSE, "none", <<>>, <<>>)
    /\ completion_topic = <<>>
    /\ accepted = [r \in RequestIds |-> "NONE"]
    /\ ServiceIdle
    /\ FilesIdle

\* a service registers the handler of a job type
RegisterJobHandler(job_type, handler_func) ==
    /\ LET r == register_job_handler(registered, job_type, handler_func)
       IN  /\ registered' = r.handlers
           /\ last' = LastQueue("register_job_handler",
                                [job_type |-> job_type, payload |-> "none"],
                                handler_func, FALSE, r.raised, <<>>, <<>>)
    /\ UNCHANGED <<job_queue, completion_topic, accepted, service_vars, file_vars>>

\* a caller queues a job
QueueJob(job_definition) ==
    /\ Len(job_queue) < MaxQueue
    /\ LET r == queue_job(job_queue, job_definition)
       IN  /\ job_queue' = r.queue
           /\ last' = LastQueue("queue_job", job_definition, "none", FALSE, r.raised,
                                <<>>, IF r.raised = "none" THEN <<job_definition>> ELSE <<>>)
    /\ UNCHANGED <<registered, completion_topic, accepted, service_vars, file_vars>>

\* another producer posts a message on the job_queue topic
TopicMessage(message) ==
    /\ Len(job_queue) < MaxQueue
    /\ job_queue' = Append(job_queue, message)
    /\ last' = LastQueue("topic_message", message, "none", FALSE, "none", <<>>, <<>>)
    /\ UNCHANGED <<registered, completion_topic, accepted, service_vars, file_vars>>

\* the inbox delivers the oldest message of the job_queue topic; the handler,
\* when one is called, returns finished
NextJob(finished) ==
    /\ job_queue # <<>>
    /\ LET job_definition == Head(job_queue)
           r == next_job_handler(Tail(job_queue), registered, job_definition, finished)
       IN  /\ job_queue' = r.queue
           /\ last' = LastQueue("next_job", job_definition, "none", finished, "none",
                                r.calls, r.posts)
    /\ UNCHANGED <<registered, completion_topic, accepted, service_vars, file_vars>>

QueueNext ==
    \/ \E job_type \in JobTypes, handler_func \in HandlerFuncs \cup {NotCallable} :
          RegisterJobHandler(job_type, handler_func)
    \/ \E job_definition \in QueuedJobs : QueueJob(job_definition)
    \/ \E message \in TopicMessages : TopicMessage(message)
    \/ \E finished \in BOOLEAN : NextJob(finished)

QueueSpec == QueueInit /\ [][QueueNext]_vars

----------------------------------------------------------------------------
(* The monitoring pipeline from the point on where every poll gets a       *)
(* terminal status and the bus accepts every publish                       *)

\* the monitor jobs monitor_execution queues
MonitorJobs ==
    {create_job_definition(request_id, deployment_location, tenant_id) :
        request_id \in RequestIds,
        deployment_location \in DeploymentLocations,
        tenant_id \in TenantIds \cup {NULL}}

\* the job queues of the pipeline: at most one monitor job for a request
MonitorQueues ==
    {queue \in UNION {[1..n -> MonitorJobs] : n \in 0..NumRequests} :
        \A i, j \in 1..Len(queue) :
            i # j => queue[i].request_id # queue[j].request_id}

\* the pipeline at that point: some requests have their monitor job on the
\* queue, polled before or not; of the others some were never scheduled and
\* some were dropped as not found
LiveInit ==
    /\ job_queue \in MonitorQueues
    /\ completion_topic = <<>>
    /\ accepted \in [RequestIds -> {"NONE", "SCHEDULED", "POLLING", "DROPPED"}]
    /\ \A r \in RequestIds :
          accepted[r] \in {"SCHEDULED", "POLLING"}
              <=> \E i \in 1..Len(job_queue) : job_queue[i].request_id = r
    /\ last = Last("init", NoJob, NoEnv, NoOutcome, "none")
    /\ ServiceIdle
    /\ FilesIdle
    /\ MonitorRegistered

\* a delivery in which get_lifecycle_execution returns COMPLETE or FAILED and
\* the bus accepts the publish
TerminalDelivery ==
    \E env \in QueueEnvs :
        /\ env.get.kind = "return"
        /\ env.get.status \in {STATUS_COMPLETE, STATUS_FAILED}
        /\ env.post = "ok"
        /\ ReceivedNextJob(env)

\* new requests are scheduled meanwhile (a refused monitor_execution changes
\* nothing of the pipeline and is left out)
LiveNext ==
    \/ \E job_definition \in MonitorJobs :
          MonitorExecution(job_definition.request_id,
                           job_definition.deployment_location,
                           job_definition.tenant_id)
    \/ TerminalDelivery

\* the job queue keeps delivering: the inbox watch (test_queue.py 34-36)
\* hands every message of the topic to __received_next_job_handler
LiveSpec == LiveInit /\ [][LiveNext]_vars /\ WF_vars(TerminalDelivery)

----------------------------------------------------------------------------
(* Vocabulary of the properties *)

\* the number of completion events published for request r
EventsFor(r) ==
    Cardinality({i \in 1..Len(completion_topic) :
                    completion_topic[i].message.requestId = r})

\* the number of monitor jobs of request r on the job queue
JobsFor(r) ==
    Cardinality({i \in 1..Len(job_queue) : job_queue[i].request_id = r})

Accepted == {r \in RequestIds : accepted[r] # "NONE"}

\* a job definition job_handler polls the handler for
WellFormed(job_definition) ==
    /\ job_definition.request_id \notin {ABSENT, NULL}
    /\ job_definition.deployment_location \notin {ABSENT, NULL}
    /\ job_definition.tenant_id # ABSENT

\* a poll of a well-formed job has run
Polled == last.op = "job_handler" /\ WellFormed(last.job)

SawTerminal ==
    /\ Polled
    /\ last.env.get.kind = "return"
    /\ last.env.get.status \in {"COMPLETE", "FAILED"}

SawUnexpected ==
    /\ Polled
    /\ last.env.get.kind = "raise"
    /\ last.env.get.exc \notin {"RequestNotFoundError", "TemporaryResourceDriverError"}

\* the envelope e is on the completion topic for the polled job, with its tenant
ForPolledJob(e) ==
    /\ e.address = "lifecycle_execution_events"
    /\ e.message.requestId = last.job.request_id
    /\ e.tenant_id = last.job.tenant_id

----------------------------------------------------------------------------
(* C1 *)

----------------------------------------------------------------------------
(* C2 *)

\* C2: a poll of a well-formed job that gets a COMPLETE or FAILED execution
\* hands exactly one envelope to the completion topic, carrying that
\* execution's request id and status and the job's tenant_id, and, the bus
\* having accepted it, that envelope is the one published and the poll
\* returns finished = true.
C2_TerminalStatusPublishedOnce ==
    SawTerminal =>
        /\ Len(last.res.posts) = 1
        /\ ForPolledJob(last.res.posts[1])
        /\ last.res.posts[1].message.status = last.env.get.status
        /\ last.env.post = "ok" =>
              /\ last.res.result = "True"
              /\ completion_topic = last.res.posts

C2_Witness ==
    /\ SawTerminal
    /\ last.env.get.status = "FAILED"
    /\ last.env.post = "ok"
    /\ last.job.tenant_id = "t1"
    /\ Len(completion_topic) = 1

----------------------------------------------------------------------------
(* C3 *)

\* C3: a poll in which get_lifecycle_execution raises anything but
\* RequestNotFound or TemporaryResourceDriverError hands exactly one envelope
\* to the completion topic, for the job's request id, with status FAILED and
\* failure details INTERNAL_ERROR and the exception's message, and, the bus
\* having accepted it, the poll returns finished = true.
C3_UnexpectedErrorPublishedAsFailed ==
    SawUnexpected =>
        /\ Len(last.res.posts) = 1
        /\ ForPolledJob(last.res.posts[1])
        /\ last.res.posts[1].message.status = "FAILED"
        /\ last.res.posts[1].message.failureDetails.failureCode = "INTERNAL_ERROR"
        /\ last.res.posts[1].message.failureDetails.description = last.env.get.msg
        /\ last.env.post = "ok" =>
              /\ last.res.result = "True"
              /\ completion_topic = last.res.posts

C3_Witness ==
    /\ SawUnexpected
    /\ last.env.get.exc = "ResourceDriverError"
    /\ last.env.get.msg = "boom"
    /\ last.env.post = "ok"
    /\ Len(completion_topic) = 1

----------------------------------------------------------------------------
(* C4 *)

SawTransient ==
    /\ Polled
    /\ \/ last.env.get.kind = "raise" /\ last.env.get.exc = "TemporaryResourceDriverError"
       \/ last.env.get.kind = "return" /\ last.env.get.status \notin {"COMPLETE", "FAILED"}

\* C4: a poll that ends with TemporaryResourceDriverError, or with a status
\* other than COMPLETE and FAILED, hands nothing to the completion topic and
\* returns finished = false.
C4_TransientNotFinished ==
    SawTransient =>
        /\ last.res.posts = <<>>
        /\ completion_topic = <<>>
        /\ last.res.result = "False"

C4_Witness ==
    /\ SawTransient
    /\ last.env.get.kind = "raise"
    /\ last.res.result = "False"

----------------------------------------------------------------------------
(* C5 *)

SawNotFound ==
    /\ Polled
    /\ last.env.get.kind = "raise"
    /\ last.env.get.exc = "RequestNotFoundError"

\* C5: a poll in which get_lifecycle_execution raises RequestNotFound returns
\* finished = true, hands nothing to the completion topic and does not call
\* post_lifecycle_response.
C5_NotFoundDropsJob ==
    SawNotFound =>
        /\ last.res.result = "True"
        /\ last.res.posts = <<>>
        /\ completion_topic = <<>>
        /\ \A i \in 1..Len(last.res.calls) : last.res.calls[i] # "post_lifecycle_response"

C5_Witness ==
    /\ SawNotFound
    /\ last.env.hook = "returns"
    /\ last.res.result = "True"

----------------------------------------------------------------------------
(* C6 *)

Malformed ==
    /\ last.op = "job_handler"
    /\ \/ last.job.request_id \in {ABSENT, NULL}
       \/ last.job.deployment_location \in {ABSENT, NULL}

\* C6: for a job whose request_id or deployment_location is missing or null
\* the poll returns finished = true, hands nothing to the completion topic
\* and makes no call to the handler.
C6_MalformedJobDiscarded ==
    Malformed =>
        /\ last.res.result = "True"
        /\ last.res.posts = <<>>
        /\ completion_topic = <<>>
        /\ last.res.calls = <<>>

C6_Witness ==
    /\ Malformed
    /\ last.job.request_id \in RequestIds
    /\ last.job.deployment_location = NULL
    /\ last.env.get.kind = "return"
    /\ last.env.get.status = "COMPLETE"

----------------------------------------------------------------------------
(* C7 *)

\* C7: a poll in which the publish of the completion event fails ends as not
\* finished, and the monitor job is on the job queue afterwards.
C7_PublishFailureIsTransient ==
    (last.op = "received_next_job" /\ last.res.exc = "PostError") =>
        /\ last.res.result = "False"
        /\ JobsFor(last.job.request_id) = 1

----------------------------------------------------------------------------
(* C8 *)

\* C8: with the bus accepting the publish, a poll that saw a terminal status
\* returns finished = true and has published the one completion event of that
\* status, whether the handler has no post_lifecycle_response, or has one
\* that returns, or has one that raises.
C8_HookNeverAffectsOutcome ==
    (SawTerminal /\ last.env.post = "ok") =>
        /\ last.res.result = "True"
        /\ last.res.exc = "none"
        /\ Len(completion_topic) = 1
        /\ ForPolledJob(completion_topic[1])
        /\ completion_topic[1].message.status = last.env.get.status
        /\ last.res = [job_handler(last.job, [last.env EXCEPT !.hook = "absent"])
                          EXCEPT !.calls = last.res.calls]

C8_Witness ==
    /\ SawTerminal
    /\ last.env.post = "ok"
    /\ last.env.hook = "raises"
    /\ last.res.calls = <<"get_lifecycle_execution", "post", "post_lifecycle_response">>

----------------------------------------------------------------------------
(* C9, C10 *)

ValidArguments(args) == args.request_id # NULL /\ args.deployment_location # NULL

\* C9: monitor_execution with request_id and deployment_location present
\* returns normally and adds exactly one job to the job queue, of type
\* LifecycleExecutionMonitoring, with the given request_id,
\* deployment_location and tenant_id.
C9_MonitorExecutionQueuesOneJob ==
    [][(last'.op = "monitor_execution" /\ ValidArguments(last'.job)) =>
          /\ last'.raised = "none"
          /\ job_queue' = Append(job_queue,
                 [job_type |-> "LifecycleExecutionMonitoring",
                  request_id |-> last'.job.request_id,
                  deployment_location |-> last'.job.deployment_location,
                  tenant_id |-> last'.job.tenant_id])]_vars

C9_Witness ==
    /\ last.op = "monitor_execution"
    /\ ValidArguments(last.job)
    /\ last.job.tenant_id = "t1"
    /\ Len(job_queue) = 2

\* C10: monitor_execution with request_id or deployment_location None raises
\* ValueError and leaves the job queue as it was.
C10_MonitorExecutionRefuses ==
    [][(last'.op = "monitor_execution" /\ ~ValidArguments(last'.job)) =>
          /\ last'.raised = "ValueError"
          /\ job_queue' = job_queue]_vars

C10_Witness ==
    /\ last.op = "monitor_execution"
    /\ last.job.request_id \in RequestIds
    /\ last.job.deployment_location = NULL
    /\ last.raised = "ValueError"
    /\ Len(job_queue) = 1

----------------------------------------------------------------------------
(* C14, C15, C16: the driver files manager *)

Built == last.op = "build_tree"

\* C14: build_tree with a payload that is no zip archive fails with
\* InvalidDriverFilesError, and afterwards neither the package file nor a
\* non-empty extraction directory of that tree is on disk.
C14_InvalidZipLeavesNothing ==
    (Built /\ last.lifecycle_scripts.kind = "not_zip") =>
        /\ last.raised = "InvalidDriverFilesError"
        /\ workspace[last.tree_name].package = NoPackage
        /\ workspace[last.tree_name].files = {}

\* C15: whatever was on disk for the tree name before (a leftover package
\* file, an extraction directory with stale files), a build_tree with a zip
\* payload succeeds, the tree holds exactly the entries of the archive and
\* the package file is gone; so does the same call made again.
C15_BuildTreeIdempotent ==
    (Built /\ last.lifecycle_scripts.kind = "zip") =>
        /\ last.raised = "none"
        /\ workspace[last.tree_name].dir
        /\ workspace[last.tree_name].files = last.lifecycle_scripts.entries
        /\ workspace[last.tree_name].package = NoPackage

\* the second of two successive identical calls, the first of which found a
\* leftover package file and a directory with a file the archive does not hold
C15_Witness ==
    /\ Built
    /\ last.repeated
    /\ last.lifecycle_scripts = [kind |-> "zip", entries |-> {"install.sh"}]
    /\ last.before.package # NoPackage
    /\ last.before.files = {"start.sh"}
    /\ last.prior.files = {"install.sh"}
    /\ workspace[last.tree_name].files = {"install.sh"}

\* C16: when several managers are constructed concurrently against an absent
\* root, no construction fails, and once all are constructed the root exists.
C16_ConcurrentCreationTolerated ==
    /\ \A i \in Instances : pc[i] # "failed"
    /\ (\A i \in Instances : pc[i] = "ready") => root_exists

----------------------------------------------------------------------------
(* ResourceDriverService *)

\* the step is a call of execute_lifecycle with the request queue enabled
QueuedCall == last'.op = "execute_lifecycle" /\ config.async_requests_enabled

\* the step is a call of execute_lifecycle with the request queue disabled
DirectCall == last'.op = "execute_lifecycle" /\ ~config.async_requests_enabled

\* the step is a call that builds a tree and hands it to the handler
SynchronousCall == DirectCall \/ last'.op = "find_reference"

\* what build_tree does with the arguments of the call of the step
BuildOfCall == build_tree(workspace[last'.tree_name], last'.args.driver_files)

\* the handler was called in the call of the step and returned a response
HandlerReturned == BuildOfCall.raised = "none" /\ last'.outcome.kind = "return"

\* the handler was called in the call of the step and raised
HandlerRaised == BuildOfCall.raised = "none" /\ last'.outcome.kind = "raise"

\* the number of times a collaborator was called
CallsOf(calls, name) == Cardinality({i \in 1..Len(calls) : calls[i] = name})

\* C11: with the request queue enabled, whatever async_enabled is,
\* execute_lifecycle puts exactly one message on the request queue, with a
\* request id that no earlier message carries and the logging context of the
\* call, returns a response with that request id, and neither calls the
\* handler, nor builds a tree, nor schedules a monitoring job.
C11_QueuedRequestOnly ==
    [][QueuedCall =>
        /\ last'.raised = "none"
        /\ \A i \in 1..Len(request_queue) :
              request_queue[i].request_id # last'.response
        /\ request_queue' =
              Append(request_queue, lifecycle_request(last'.response, last'.args))
        /\ request_queue'[Len(request_queue')].request_id = last'.response
        /\ request_queue'[Len(request_queue')].logging_context
              = last'.args.logging_context
        /\ last'.calls = <<"queue_lifecycle_request">>
        /\ workspace' = workspace
        /\ job_queue' = job_queue
        /\ completion_topic' = completion_topic]_vars

\* a second request was queued while async_enabled is true: the queue holds
\* two messages with different request ids, the last one with the id returned
C11_Witness ==
    /\ last.op = "execute_lifecycle"
    /\ config.async_requests_enabled
    /\ config.async_enabled
    /\ Len(request_queue) = 2
    /\ request_queue[2].request_id = last.response
    /\ request_queue[1].request_id # last.response
    /\ request_queue[2].logging_context = "ctx2"
    /\ job_queue = <<>>

\* C12: with the request queue disabled, execute_lifecycle builds the tree;
\* when the tree is built it calls handler.execute_lifecycle exactly once,
\* and a call that ends without an exception returns the response of the
\* handler.  When the handler returned, monitor_execution is called (once,
\* with the request id of the response) exactly when async_enabled is true,
\* and the job it queues is the only change of the job queue.  With
\* async_enabled false no monitoring job is queued.  No completion event is
\* published and nothing is put on the request queue.
C12_DirectCall ==
    [][DirectCall =>
        /\ last'.calls[1] = "build_tree"
        /\ CallsOf(last'.calls, "build_tree") = 1
        /\ BuildOfCall.raised = "none" =>
              CallsOf(last'.calls, "handler.execute_lifecycle") = 1
        /\ last'.raised = "none" =>
              /\ HandlerReturned
              /\ last'.response = last'.outcome.request_id
        /\ HandlerReturned =>
              /\ CallsOf(last'.calls, "monitor_execution")
                    = IF config.async_enabled THEN 1 ELSE 0
              /\ config.async_enabled =>
                    LET r == monitor_execution(job_queue, last'.outcome.request_id,
                                               last'.args.deployment_location,
                                               last'.args.tenant_id)
                    IN  job_queue' = r.queue /\ last'.raised = r.raised
        /\ ~config.async_enabled => job_queue' = job_queue
        /\ completion_topic' = completion_topic
        /\ request_queue' = request_queue]_vars

\* with async_enabled true a call returned the response of the handler and
\* the monitoring job of its request id is queued
C12_Witness ==
    /\ last.op = "execute_lifecycle"
    /\ ~config.async_requests_enabled
    /\ config.async_enabled
    /\ last.raised = "none"
    /\ last.response = "r1"
    /\ last.calls = <<"build_tree", "handler.execute_lifecycle", "monitor_execution">>
    /\ job_queue = <<create_job_definition("r1", "dl1", "t1")>>
    /\ completion_topic = <<>>

\* C13: when execute_lifecycle with the request queue disabled, or
\* find_reference, has built a tree, the directory of the tree is gone when
\* the call has ended.
C13_TreeReleasedOnExit ==
    (/\ last.op \in {"execute_lifecycle", "find_reference"}
     /\ last.tree_name # "none"
     /\ Len(last.calls) >= 2)
        => ~workspace[last.tree_name].dir

\* C17: with the request queue disabled, an exception of build_tree or of the
\* handler is the exception the call raises, and the call queues no
\* monitoring job.
C17_ErrorsPropagateUnchanged ==
    [][SynchronousCall =>
        /\ BuildOfCall.raised # "none" =>
              /\ last'.raised = BuildOfCall.raised
              /\ last'.calls = <<"build_tree">>
              /\ job_queue' = job_queue
        /\ HandlerRaised =>
              /\ last'.raised = last'.outcome.exc
              /\ CallsOf(last'.calls, "monitor_execution") = 0
              /\ job_queue' = job_queue]_vars

\* with async_enabled true the handler raised in a call of execute_lifecycle
\* after an earlier call had queued a monitoring job
C17_Witness ==
    /\ last.op = "execute_lifecycle"
    /\ ~config.async_requests_enabled
    /\ config.async_enabled
    /\ last.raised = "TemporaryResourceDriverError"
    /\ last.calls = <<"build_tree", "handler.execute_lifecycle">>
    /\ Len(job_queue) = 1

----------------------------------------------------------------------------
(* Terminal outcomes *)

\* the monitoring of request r has ended: its completion event is published
\* or its job was dropped because the handler does not know the request
Ended(r) ==
    \/ accepted[r] \in {"PUBLISHED", "PUBLISHED_AS_FAILED", "DROPPED"}
    \/ EventsFor(r) >= 1

\* C19: a delivery whose handler returned finished puts nothing back on the
\* job queue, and once the monitoring of a request has ended (PUBLISHED,
\* PUBLISHED_AS_FAILED or DROPPED) no job of the request is on the job queue,
\* no later delivery polls the request, no further event is published for it
\* and its state stays as it is.
C19_TerminalOutcomesAreSinks ==
    [][/\ (last'.op = "received_next_job" /\ last'.res.result = "True")
             => job_queue' = Tail(job_queue)
       /\ \A r \in RequestIds :
             Ended(r) =>
                /\ JobsFor(r) = 0
                /\ JobsFor(r)' = 0
                /\ EventsFor(r)' = EventsFor(r)
                /\ accepted'[r] = accepted[r]
                /\ ~(last'.op = "received_next_job" /\ last'.job.request_id = r)]_vars

\* request r1 ended PUBLISHED, and after that the monitoring of r2 was polled
\* and ended with a published failure: one event for each, no job left
C19_Witness ==
    /\ accepted["r1"] = "PUBLISHED"
    /\ accepted["r2"] = "PUBLISHED_AS_FAILED"
    /\ last.op = "received_next_job"
    /\ last.job.request_id = "r2"
    /\ last.res.result = "True"
    /\ EventsFor("r1") = 1
    /\ EventsFor("r2") = 1
    /\ job_queue = <<>>

----------------------------------------------------------------------------
(* MessagingJobQueueService *)

\* the step delivers a job whose job type has a registered handler
HandledDelivery ==
    /\ last'.op = "next_job"
    /\ last'.job.job_type \in DOMAIN registered

\* the step delivers a job whose job type has no registered handler
UnhandledDelivery ==
    /\ last'.op = "next_job"
    /\ last'.job.job_type # ABSENT
    /\ last'.job.job_type \notin DOMAIN registered

\* the delivered job is back on the job queue, behind the jobs that were there
Reposted(job_definition) ==
    /\ job_definition = Head(job_queue)
    /\ job_queue' = Append(Tail(job_queue), job_definition)

\* C18: when the handler registered for the job type of a delivered job
\* returns not finished, that handler was called exactly once, with the job
\* definition, and the job is posted exactly once to the job_queue topic with
\* the content it had.
C18_UnfinishedJobReposted ==
    [][(HandledDelivery /\ ~last'.finished) =>
          /\ last'.calls = <<[handler_func |-> registered[last'.job.job_type],
                              job_definition |-> last'.job]>>
          /\ last'.posts = <<last'.job>>
          /\ Reposted(last'.job)]_vars

\* a job of a handled type was delivered while another job waited, its
\* handler returned not finished, and the job is now behind the other one
C18_Witness ==
    /\ last.op = "next_job"
    /\ last.job = [job_type |-> "test_job", payload |-> "a"]
    /\ "test_job" \in DOMAIN registered
    /\ ~last.finished
    /\ Len(last.calls) = 1
    /\ job_queue = <<[job_type |-> "other_job", payload |-> "b"],
                     [job_type |-> "test_job", payload |-> "a"]>>

\* C20: when the job type of a delivered job has no registered handler, no
\* handler is called and the job is posted exactly once to the job_queue
\* topic with the content it had.
C20_UnhandledJobReposted ==
    [][UnhandledDelivery =>
          /\ last'.calls = <<>>
          /\ last'.posts = <<last'.job>>
          /\ Reposted(last'.job)]_vars

\* a job of a type without handler was delivered while a handler of the other
\* type is registered, and the job is back on the queue
C20_Witness ==
    /\ last.op = "next_job"
    /\ last.job = [job_type |-> "test_job", payload |-> "b"]
    /\ DOMAIN registered = {"other_job"}
    /\ last.calls = <<>>
    /\ job_queue = <<[job_type |-> "test_job", payload |-> "b"]>>

\* C21: when the delivered message has no job_type key, no handler is called,
\* nothing is posted to the job_queue topic and the message is gone from the
\* queue.
C21_UntypedMessageDiscarded ==
    [][(last'.op = "next_job" /\ last'.job.job_type = ABSENT) =>
          /\ last'.calls = <<>>
          /\ last'.posts = <<>>
          /\ last'.job = Head(job_queue)
          /\ job_queue' = Tail(job_queue)]_vars

\* a message without job_type was delivered while a handler is registered
\* and a job waited behind it: only that job is on the queue
C21_Witness ==
    /\ last.op = "next_job"
    /\ last.job = [job_type |-> ABSENT, payload |-> "a"]
    /\ "test_job" \in DOMAIN registered
    /\ last.calls = <<>>
    /\ job_queue = <<[job_type |-> "test_job", payload |-> "b"]>>

\* C22: a handler a job type has is never replaced or removed; a call of
\* register_job_handler with a handler that is not callable, or for a job
\* type that has a handler, raises and leaves the registry as it was; any
\* other call adds the handler under the job type and changes nothing else.
C22_FirstCallableRegistered ==
    [][/\ \A t \in DOMAIN registered :
             t \in DOMAIN registered' /\ registered'[t] = registered[t]
       /\ last'.op # "register_job_handler" => registered' = registered
       /\ last'.op = "register_job_handler" =>
             IF \/ last'.handler_func \notin HandlerFuncs
                \/ last'.job.job_type \in DOMAIN registered
             THEN /\ last'.raised = "ValueError"
                  /\ registered' = registered
             ELSE /\ last'.raised = "none"
                  /\ DOMAIN registered' = DOMAIN registered \cup {last'.job.job_type}
                  /\ registered'[last'.job.job_type] = last'.handler_func]_vars

\* a second callable was offered for a job type that has a handler: the call
\* raised and the job type still has the first one
C22_Witness ==
    /\ last.op = "register_job_handler"
    /\ last.job.job_type = "test_job"
    /\ last.handler_func = "other_handler_func"
    /\ last.raised = "ValueError"
    /\ registered["test_job"] = "handler_func"
    /\ DOMAIN registered = {"test_job", "other_job"}

\* C23: queue_job raises for a job definition that has no job_type key or a
\* job_type of None, and then posts nothing: the job_queue topic is as it was.
C23_QueueJobNeedsJobType ==
    [][(last'.op = "queue_job" /\ last'.job.job_type \in {ABSENT, NULL}) =>
          /\ last'.raised = "ValueError"
          /\ last'.posts = <<>>
          /\ job_queue' = job_queue]_vars

\* queue_job refused a job definition with a job_type of None while a job
\* was on the queue
C23_Witness ==
    /\ last.op = "queue_job"
    /\ last.job = [job_type |-> NULL, payload |-> "a"]
    /\ last.raised = "ValueError"
    /\ job_queue = <<[job_type |-> "test_job", payload |-> "b"]>>

----------------------------------------------------------------------------
(* post_lifecycle_response *)

\* the positions of a call in the calls of the last poll
CallsAt(name) == {i \in 1..Len(last.res.calls) : last.res.calls[i] = name}

\* C24: a poll calls post_lifecycle_response at most once, and when it calls
\* it the handler has the hook, get_lifecycle_execution returned COMPLETE or
\* FAILED, the completion event of that status was posted before the call and
\* the bus accepted it.  So there is no call when the request is not found,
\* on a temporary error, on a status that is not terminal, on an unexpected
\* error (synthesized FAILED), or when the publish raised.
C24_HookOnlyAfterPublication ==
    last.op = "job_handler" =>
        /\ Cardinality(CallsAt("post_lifecycle_response")) <= 1
        /\ \A h \in CallsAt("post_lifecycle_response") :
              /\ SawTerminal
              /\ last.env.hook # "absent"
              /\ last.env.post = "ok"
              /\ \E p \in CallsAt("post") : p < h
              /\ Len(completion_topic) = 1
              /\ ForPolledJob(completion_topic[1])
              /\ completion_topic[1].message.status = last.env.get.status
              /\ last.res.result = "True"

\* a poll got COMPLETE, published the event and then called the hook
C24_Witness ==
    /\ SawTerminal
    /\ last.env.get.status = "COMPLETE"
    /\ last.env.hook = "returns"
    /\ last.res.calls = <<"get_lifecycle_execution", "post", "post_lifecycle_response">>
    /\ Len(completion_topic) = 1
    /\ completion_topic[1].message.status = "COMPLETE"

----------------------------------------------------------------------------
(* The monitor job on the job queue *)

\* the monitoring of request r is scheduled and has not ended with a
\* published event or a drop of the job
Monitored(r) ==
    accepted[r] \notin {"NONE", "PUBLISHED", "PUBLISHED_AS_FAILED", "DROPPED"}

\* C25: the job queue never holds more than one monitor job of a request,
\* and as long as the monitoring of a scheduled request has not ended with a
\* terminal outcome its monitor job is on the job queue.
C25_OneCopyUntilTerminal ==
    \A r \in RequestIds :
        /\ JobsFor(r) <= 1
        /\ Monitored(r) => JobsFor(r) = 1

----------------------------------------------------------------------------
(* Jobs without tenant_id *)

\* the last poll was for a job with request_id and deployment_location, and
\* the bus accepted what the poll published
PolledWithIds ==
    /\ last.op = "job_handler"
    /\ last.job.request_id \notin {ABSENT, NULL}
    /\ last.job.deployment_location \notin {ABSENT, NULL}
    /\ last.env.post = "ok"

\* C27: a poll of a job that has request_id and deployment_location returns
\* finished = true or finished = false and raises nothing, whether the job
\* has a tenant_id, a tenant_id of None or no tenant_id key, when the bus
\* accepts what the poll publishes.
C27_NoPoisonJob ==
    PolledWithIds =>
        /\ last.res.result \in {"True", "False"}
        /\ last.res.exc = "none"
        /\ last.raised = "none"

----------------------------------------------------------------------------
(* The monitoring ends *)

\* C26: from the point on where every poll gets COMPLETE or FAILED and the
\* bus accepts every publish, with the job queue delivering the jobs it
\* holds, a request whose monitor job is on the queue gets its completion
\* event published, exactly one, and from then on its monitor job is never on
\* the queue again.
C26_MonitoringEnds ==
    \A r \in RequestIds :
        (JobsFor(r) = 1) ~> [](EventsFor(r) = 1 /\ JobsFor(r) = 0)

\* the job of r2 was on the queue behind that of r1; both were polled and
\* both events are published, the one of r2 last, with status FAILED
C26_Witness ==
    /\ accepted["r1"] = "PUBLISHED"
    /\ accepted["r2"] = "PUBLISHED"
    /\ job_queue = <<>>
    /\ Len(completion_topic) = 2
    /\ completion_topic[1].message.requestId = "r1"
    /\ completion_topic[2].message.requestId = "r2"
    /\ completion_topic[2].message.status = "FAILED"

====
